---- MODULE Spec2Model ----
(***************************************************************************)
(* A model of nfeloqb/Resources/data_loader.py: the DataLoader class, its  *)
(* pull_data orchestrator and the pandas pipeline it sequences.            *)
(*                                                                         *)
(* Encoding of pandas values                                               *)
(*   - a DataFrame is [none, columns, rows]: the set of column names and   *)
(*     the rows in index order, each row a function on the columns;        *)
(*     None is the record with none = TRUE;                                *)
(*   - a str is the sequence of its code points, so that < on strings is   *)
(*     the lexicographic order Python sorts by; team codes and player ids  *)
(*     are kept as TLA+ strings where only equality is used, and           *)
(*     TeamChars gives a team code's code points;                          *)
(*   - a column that can hold NaN holds <<>> for NaN and <<v>> for v       *)
(*     (game_id holds its code points, <<>> when NaN);                     *)
(*   - gameday, an ISO date string, is the integer yyyymmdd, which orders  *)
(*     as the string does;                                                 *)
(*   - VALUE is kept in tenths (10 * VALUE), an integer.                   *)
(***************************************************************************)
EXTENDS Integers, Sequences, FiniteSets, TLC

VARIABLES
    model_df,     \* self.model_df
    games_df,     \* self.games_df: set to None by __init__, never written again
    games,        \* self.games: no such attribute until add_game_data assigns it
    constructed,  \* __init__ has returned: the caller holds the instance
    pc,           \* position of the running pull_data, "done" or "raised"
    df,           \* pull_data's local df
    df_team,      \* pull_data's local df_team
    stats_src,    \* what player_stats_url served to this run
    meta_src,     \* what player_info_url served to this run
    draft_src,    \* what the missing_draft_data file held for this run
    games_src,    \* what game_data_url served to this run
    before,       \* <<model_df, games>> as they were when this run began
    wrote,        \* the stored outputs this run has assigned
    fn,           \* function harness: the function applied
    arg,          \* function harness: its argument
    ret           \* function harness: its return value

vars == <<model_df, games_df, games, constructed, pc, df, df_team, stats_src, meta_src,
          draft_src, games_src, before, wrote, fn, arg, ret>>

pipe_vars == <<model_df, games_df, games, constructed, pc, df, df_team, stats_src,
               meta_src, draft_src, games_src, before, wrote>>

----------------------------------------------------------------------------
(* Values *)

NaN == <<>>

None == [none |-> TRUE, columns |-> {}, rows |-> <<>>]

\* An attribute the instance does not have: hasattr is False and reading it
\* raises AttributeError.
NoAttribute == [attribute |-> FALSE]

DataFrame(columns, rows) == [none |-> FALSE, columns |-> columns, rows |-> rows]

\* A source that cannot be read: pd.read_csv raises.
Unreachable == [none |-> TRUE, columns |-> {"unreachable"}, rows |-> <<>>]

\* self.stat_cols
stat_cols ==
    <<"completions", "attempts", "passing_yards", "passing_tds",
      "interceptions", "sacks", "carries", "rushing_yards", "rushing_tds">>

StatColSet == {stat_cols[i] : i \in DOMAIN stat_cols}

\* self.player_file_repl, through Series.replace: absent keys pass through
player_file_repl(t) ==
    CASE t = "LA" -> "LAR"
      [] t = "LV" -> "OAK"
      [] OTHER -> t

\* self.games_file_repl, through Series.replace: absent keys pass through
games_file_repl(t) ==
    CASE t = "LA" -> "LAR"
      [] t = "LV" -> "OAK"
      [] t = "STL" -> "LAR"
      [] t = "SD" -> "LAC"
      [] OTHER -> t

\* The code points of the team codes the model uses.
TeamChars ==
    [LA  |-> <<76, 65>>,     LV  |-> <<76, 86>>,     STL |-> <<83, 84, 76>>,
     SD  |-> <<83, 68>>,     LAR |-> <<76, 65, 82>>, OAK |-> <<79, 65, 75>>,
     LAC |-> <<76, 65, 67>>, KC  |-> <<75, 67>>]

\* str(n) of a non-negative int: its decimal digits, most significant first
RECURSIVE astype_str(_)
astype_str(n) ==
    IF n < 10 THEN <<48 + n>> ELSE Append(astype_str(n \div 10), 48 + (n % 10))

\* str.zfill(width): '0' on the left up to width
RECURSIVE zfill(_, _)
zfill(s, width) == IF Len(s) >= width THEN s ELSE zfill(<<48>> \o s, width)

\* Python's < on two strings
RECURSIVE StrLess(_, _)
StrLess(a, b) ==
    IF b = <<>> THEN FALSE
    ELSE IF a = <<>> THEN TRUE
    ELSE IF Head(a) # Head(b) THEN Head(a) < Head(b)
    ELSE StrLess(Tail(a), Tail(b))

----------------------------------------------------------------------------
(* pandas helpers *)

\* a row with the fields of s added to (or replacing) those of r
Assign(r, s) ==
    [c \in DOMAIN r \cup DOMAIN s |-> IF c \in DOMAIN s THEN s[c] ELSE r[c]]

\* df[cols] on one row
Project(r, cols) == [c \in cols |-> r[c]]

\* rename(columns={old: new}) on one row
Rename(r, old, new) ==
    [c \in (DOMAIN r \ {old}) \cup {new} |-> IF c = new THEN r[old] ELSE r[c]]

SameKey(a, b, on) == \A c \in on : a[c] = b[c]

\* groupby(keys).head(1): the first row of each group, in the frame's order;
\* a row whose key is NaN belongs to no group (dropna) and is left out
GroupHead1(rows, keys, nullable) ==
    LET keep(i) == /\ \A c \in keys \cap nullable : rows[i][c] # NaN
                   /\ \A j \in 1..(i - 1) : ~SameKey(rows[j], rows[i], keys)
        RECURSIVE walk(_)
        walk(i) == IF i > Len(rows) THEN <<>>
                   ELSE (IF keep(i) THEN <<rows[i]>> ELSE <<>>) \o walk(i + 1)
    IN  walk(1)

\* The rows of right that match one left row on the key columns, in right's order
Matches(l, right, on) == SelectSeq(right, LAMBDA r : SameKey(l, r, on))

\* pd.merge(left, right, on=on, how='left'): every left row in order, once per
\* matching right row (in right's order), or once with NaN in right's columns
RECURSIVE LeftMergeFrom(_, _, _, _, _)
LeftMergeFrom(i, left, right, on, carry) ==
    IF i > Len(left) THEN <<>>
    ELSE LET l == left[i]
             m == Matches(l, right, on)
             out == IF m = <<>>
                    THEN <<Assign(l, [c \in carry |-> NaN])>>
                    ELSE [k \in DOMAIN m |-> Assign(l, Project(m[k], carry))]
         IN  out \o LeftMergeFrom(i + 1, left, right, on, carry)

LeftMerge(left, right, on, carry) == LeftMergeFrom(1, left, right, on, carry)

----------------------------------------------------------------------------
(* retrieve_player_stats *)

\* The frame read from player_stats_url: QB rows only, recent_team replaced
\* through player_file_repl and renamed to team. Any exception gives None.
retrieve_player_stats(src) ==
    IF src.none \/ ~({"position", "recent_team"} \subseteq src.columns)
    THEN None
    ELSE LET qbs == SelectSeq(src.rows, LAMBDA r : r.position = "QB")
         IN  DataFrame(
                (src.columns \ {"recent_team"}) \cup {"team"},
                [i \in DOMAIN qbs |->
                    Rename(Assign(qbs[i],
                                  [recent_team |-> player_file_repl(qbs[i].recent_team)]),
                           "recent_team", "team")])

----------------------------------------------------------------------------
(* retrieve_player_meta and its inner add_missing_draft_data *)

fill_cols == <<"rookie_year", "draft_number", "entry_year", "birth_date">>

FillColSet == {fill_cols[i] : i \in DOMAIN fill_cols}

FillName ==
    [rookie_year |-> "rookie_year_fill", draft_number |-> "draft_number_fill",
     entry_year |-> "entry_year_fill", birth_date |-> "birth_date_fill"]

FillNameSet == {FillName[c] : c \in FillColSet}

meta_cols ==
    {"gsis_id", "first_name", "last_name", "birth_date", "rookie_year",
     "entry_year", "draft_number"}

\* combine_first with its operands swapped: the backfill value wins
combine_first_fill_wins(a, b) == IF b # NaN THEN b ELSE a

\* Series.combine_first on one cell: the caller's value unless it is NaN
combine_first(a, b) == IF a # NaN THEN a ELSE b

\* missing_draft.groupby(['player_id']).head(1)
draft_head(missing_draft) == GroupHead1(missing_draft, {"player_id"}, {})

\* the rename of the four columns to their _fill names, and the selection of
\* player_id and the four _fill columns
draft_fill_rows(missing_draft) ==
    [i \in DOMAIN missing_draft |->
        [c \in {"player_id"} \cup FillNameSet |->
            IF c = "player_id" THEN missing_draft[i].player_id
            ELSE missing_draft[i][CHOOSE k \in FillColSet : FillName[k] = c]]]

\* the loop over the four columns: combine_first, then drop the _fill column
fill_missing(r) ==
    [c \in DOMAIN r \ FillNameSet |->
        IF c \in FillColSet THEN combine_first(r[c], r[FillName[c]]) ELSE r[c]]

\* add_missing_draft_data on the rows of df, given the rows of the backfill file
add_missing_draft_data(rows, missing_draft) ==
    LET merged == LeftMerge(rows, draft_fill_rows(draft_head(missing_draft)),
                            {"player_id"}, FillNameSet)
    IN  [i \in DOMAIN merged |-> fill_missing(merged[i])]

\* meta.groupby(['gsis_id']).head(1), the seven columns, gsis_id renamed
meta_rows(meta) ==
    LET firsts == GroupHead1(meta, {"gsis_id"}, {})
    IN  [i \in DOMAIN firsts |->
            Rename(Project(firsts[i], meta_cols), "gsis_id", "player_id")]

\* the read of players.csv, the column selection or the merge on player_id
\* raises: add_missing_draft_data is not called and its file is not read
meta_merge_raises(d, meta) ==
    \/ meta.none
    \/ ~(meta_cols \subseteq meta.columns)
    \/ ~("player_id" \in d.columns)

\* retrieve_player_meta(df): any exception gives None
retrieve_player_meta(d, meta, draft) ==
    IF \/ meta_merge_raises(d, meta)
       \/ draft.none
       \/ ~(({"player_id"} \cup FillColSet) \subseteq draft.columns)
    THEN None
    ELSE DataFrame(
            d.columns \cup (meta_cols \ {"gsis_id"}),
            add_missing_draft_data(
                LeftMerge(d.rows, meta_rows(meta.rows), {"player_id"},
                          meta_cols \ {"gsis_id"}),
                draft.rows))

----------------------------------------------------------------------------
(* add_game_data *)

\* season + '_' + week zero-padded to 2 + '_' + away_team + '_' + home_team
build_game_id(season, week, away_team, home_team) ==
    astype_str(season) \o <<95>> \o zfill(astype_str(week), 2) \o <<95>>
        \o TeamChars[away_team] \o <<95>> \o TeamChars[home_team]

\* game_id built from the codes as read, the replacement made afterwards
normalize_game_id_first(g) ==
    Assign(g, [home_team |-> games_file_repl(g.home_team),
               away_team |-> games_file_repl(g.away_team),
               game_id |-> build_game_id(g.season, g.week, g.away_team, g.home_team)])

\* home_team and away_team replaced through games_file_repl, then game_id
\* rebuilt from the replaced codes
normalize_game(g) ==
    LET home == games_file_repl(g.home_team)
        away == games_file_repl(g.away_team)
    IN  Assign(g, [home_team |-> home, away_team |-> away,
                   game_id |-> build_game_id(g.season, g.week, away, home)])

flat_cols ==
    {"game_id", "gameday", "season", "week", "team", "opponent", "starter_id",
     "starter_name", "opponent_starter_id", "opponent_starter_name"}

game_cols ==
    {"game_id", "gameday", "season", "week", "home_team", "away_team",
     "home_qb_id", "home_qb_name", "away_qb_id", "away_qb_name"}

\* the home perspective of one game
home_view(g) ==
    [game_id |-> g.game_id, gameday |-> g.gameday, season |-> g.season,
     week |-> g.week, team |-> g.home_team, opponent |-> <<g.away_team>>,
     starter_id |-> g.home_qb_id, starter_name |-> g.home_qb_name,
     opponent_starter_id |-> g.away_qb_id,
     opponent_starter_name |-> g.away_qb_name]

\* the away perspective of one game
away_view(g) ==
    [game_id |-> g.game_id, gameday |-> g.gameday, season |-> g.season,
     week |-> g.week, team |-> g.away_team, opponent |-> <<g.home_team>>,
     starter_id |-> g.away_qb_id, starter_name |-> g.away_qb_name,
     opponent_starter_id |-> g.home_qb_id,
     opponent_starter_name |-> g.home_qb_name]

\* pd.concat of the home perspectives and the away perspectives
game_flat(game) ==
    [i \in DOMAIN game |-> home_view(game[i])]
        \o [i \in DOMAIN game |-> away_view(game[i])]

merge_on == {"season", "week", "team"}

\* the replacement and the game_id on every row of games.csv
normalize_games(rows) == [i \in DOMAIN rows |-> normalize_game(rows[i])]

\* the exception is raised before self.games is assigned
game_fails_early(src) ==
    src.none \/ ~({"home_team", "away_team", "season", "week"} \subseteq src.columns)

\* the exception is raised after self.games is assigned
game_fails_late(d, src) ==
    \/ ~(game_cols \subseteq (src.columns \cup {"game_id"}))
    \/ d.none
    \/ ~(merge_on \subseteq d.columns)

\* self.games after add_game_data, given what it was
games_after(old, d, src) ==
    IF game_fails_early(src) THEN old
    ELSE DataFrame(src.columns \cup {"game_id"}, normalize_games(src.rows))

\* the value add_game_data returns: any exception gives None
add_game_data(d, src) ==
    IF game_fails_early(src) \/ game_fails_late(d, src) THEN None
    ELSE DataFrame(
            d.columns \cup flat_cols,
            LeftMerge(d.rows, game_flat(normalize_games(src.rows)),
                      merge_on, flat_cols \ merge_on))

----------------------------------------------------------------------------
(* aggregate_team_stats, iso_top_passer, format_top_passer, calculate_raw_value *)

group_cols == <<"game_id", "season", "week", "gameday", "team">>

GroupColSet == {group_cols[i] : i \in DOMAIN group_cols}

\* the columns of the model that a left merge can leave NaN
nullable_cols ==
    (flat_cols \ merge_on) \cup (meta_cols \ {"gsis_id"}) \cup {"team_VALUE"}

\* df.groupby raises: no frame, or a column it names is missing
aggregate_raises(d) ==
    d.none \/ ~((GroupColSet \cup StatColSet) \subseteq d.columns)

\* the order of two group keys: by game_id, season, week, gameday, team
KeyLess(a, b) ==
    IF a.game_id # b.game_id THEN StrLess(a.game_id, b.game_id)
    ELSE IF a.season # b.season THEN a.season < b.season
    ELSE IF a.week # b.week THEN a.week < b.week
    ELSE IF a.gameday # b.gameday THEN a.gameday[1] < b.gameday[1]
    ELSE StrLess(TeamChars[a.team], TeamChars[b.team])

\* the group keys of the rows, NaN keys dropped, in sorted order
RECURSIVE SortKeys(_)
SortKeys(S) ==
    IF S = {} THEN <<>>
    ELSE LET least == CHOOSE k \in S : \A o \in S \ {k} : KeyLess(k, o)
         IN  <<least>> \o SortKeys(S \ {least})

RECURSIVE SumOver(_, _, _)
SumOver(rows, key, col) ==
    IF rows = <<>> THEN 0
    ELSE (IF Project(Head(rows), GroupColSet) = key THEN Head(rows)[col] ELSE 0)
         + SumOver(Tail(rows), key, col)

\* groupby(['game_id','season','week','gameday',team]).agg(sum).reset_index()
aggregate_team_stats(d) ==
    LET keyed == {i \in DOMAIN d.rows :
                     \A c \in GroupColSet \cap nullable_cols : d.rows[i][c] # NaN}
        keys == SortKeys({Project(d.rows[i], GroupColSet) : i \in keyed})
    IN  DataFrame(
            GroupColSet \cup StatColSet,
            [k \in DOMAIN keys |->
                Assign(keys[k], [c \in StatColSet |-> SumOver(d.rows, keys[k], c)])])

\* VALUE with the sack term added instead of subtracted
calculate_raw_value_sacks_added(r) ==
    -22 * r.attempts + 37 * r.completions + 2 * r.passing_yards
    + 113 * r.passing_tds - 141 * r.interceptions + 80 * r.sacks
    - 11 * r.carries + 6 * r.rushing_yards + 159 * r.rushing_tds

\* VALUE in tenths
calculate_raw_value(r) ==
    -22 * r.attempts + 37 * r.completions + 2 * r.passing_yards
    + 113 * r.passing_tds - 141 * r.interceptions - 80 * r.sacks
    - 11 * r.carries + 6 * r.rushing_yards + 159 * r.rushing_tds

\* the sort order with ties on attempts reversed: an unstable sort
SortsBefore_unstable(a, b) ==
    IF a.game_id # b.game_id
    THEN a.game_id # NaN /\ (b.game_id = NaN \/ StrLess(a.game_id, b.game_id))
    ELSE a.attempts >= b.attempts

\* row a sorts strictly before row b: game_id ascending (NaN last), then
\* attempts descending
SortsBefore(a, b) ==
    IF a.game_id # b.game_id
    THEN a.game_id # NaN /\ (b.game_id = NaN \/ StrLess(a.game_id, b.game_id))
    ELSE a.attempts > b.attempts

\* x put into a sorted sequence after every row it does not sort before
RECURSIVE InsertSorted(_, _)
InsertSorted(sorted, x) ==
    IF sorted = <<>> THEN <<x>>
    ELSE IF SortsBefore(x, Head(sorted)) THEN <<x>> \o sorted
    ELSE <<Head(sorted)>> \o InsertSorted(Tail(sorted), x)

\* sort_values(by=['game_id','attempts'], ascending=[True, False]): stable
RECURSIVE sort_values(_)
sort_values(rows) ==
    IF rows = <<>> THEN <<>>
    ELSE InsertSorted(sort_values(SubSeq(rows, 1, Len(rows) - 1)), rows[Len(rows)])

\* sort, then groupby(['game_id','team']).head(1).reset_index(drop=True)
iso_top_passer(d) ==
    DataFrame(d.columns,
              GroupHead1(sort_values(d.rows), {"game_id", "team"}, nullable_cols))

top_cols ==
    {"game_id", "season", "week", "gameday", "team", "opponent", "player_id",
     "player_name", "player_display_name", "start_number", "rookie_year",
     "entry_year", "draft_number"} \cup StatColSet

\* groupby(['player_id']).cumcount() + 1 for row i
start_number(rows, i) ==
    Cardinality({j \in 1..(i - 1) : rows[j].player_id = rows[i].player_id}) + 1

\* groupby(['player_id']) raises: the frame is left as it was given
start_number_raises(d) == ~("player_id" \in d.columns)

\* df['start_number'] = ...: the column is assigned on the frame that was
\* passed, the caller's object
with_start_number(d) ==
    DataFrame(d.columns \cup {"start_number"},
              [i \in DOMAIN d.rows |->
                  Assign(d.rows[i], [start_number |-> start_number(d.rows, i)])])

format_raises(d) == ~((top_cols \ {"start_number"}) \subseteq d.columns)

\* the frame the caller passed, once format_top_passer has returned or raised
format_arg_after(d) == IF start_number_raises(d) THEN d ELSE with_start_number(d)

\* the copy of the selected columns that is returned
format_top_passer(d) ==
    LET numbered == with_start_number(d)
    IN  DataFrame(top_cols,
                  [i \in DOMAIN numbered.rows |->
                      Project(numbered.rows[i], top_cols)])

\* df[name] = self.calculate_raw_value(df); df = df.drop(columns=self.stat_cols)
with_value(d, name) ==
    DataFrame((d.columns \ StatColSet) \cup {name},
              [i \in DOMAIN d.rows |->
                  [c \in (DOMAIN d.rows[i] \ StatColSet) \cup {name} |->
                      IF c = name THEN <<calculate_raw_value(d.rows[i])>>
                      ELSE d.rows[i][c]]])

\* pd.merge(df, df_team[['game_id','team','team_VALUE']], on=['game_id','team'],
\* how='left')
merge_team_value(d, team) ==
    DataFrame(d.columns \cup {"team_VALUE"},
              LeftMerge(d.rows, team.rows, {"game_id", "team"}, {"team_VALUE"}))

----------------------------------------------------------------------------
(* The external tables: what the four sources can hold *)

\* a source this run has not read
Unread == [none |-> TRUE, columns |-> {"unread"}, rows |-> <<>>]

\* the non-empty sequences over S of at most n elements
SeqsUpTo(S, n) == UNION {[1..k -> S] : k \in 1..n}

\* a frame without column c: the schema mismatch of a source
DropColumn(src, c) ==
    DataFrame(src.columns \ {c},
              [i \in DOMAIN src.rows |->
                  [k \in DOMAIN src.rows[i] \ {c} |-> src.rows[i][k]]])

\* the nine counting stats of a row that threw att passes
StatLine(att) ==
    [completions |-> att \div 2, attempts |-> att, passing_yards |-> 7 * att,
     passing_tds |-> 1, interceptions |-> 0, sacks |-> 1, carries |-> 2,
     rushing_yards |-> 5, rushing_tds |-> 0]

\* one row of player_stats.csv, given its nine counting stats
StatRow(p, pos, team, wk, line) ==
    Assign([player_id |-> p, player_name |-> p, player_display_name |-> p,
            position |-> pos, recent_team |-> team, season |-> 2020,
            week |-> wk],
           line)

stats_file_cols ==
    {"player_id", "player_name", "player_display_name", "position",
     "recent_team", "season", "week"} \cup StatColSet

StatsFile(rows) == DataFrame(stats_file_cols, rows)

\* one row of players.csv
MetaRow(p, ry, dn, ey, bd) ==
    [gsis_id |-> p, first_name |-> <<p>>, last_name |-> <<p>>,
     birth_date |-> bd, rookie_year |-> ry, entry_year |-> ey,
     draft_number |-> dn]

MetaFile(rows) == DataFrame(meta_cols, rows)

\* one row of missing_draft_data.csv
DraftRow(p, ry, dn, ey, bd) ==
    [player_id |-> p, rookie_year |-> ry, draft_number |-> dn,
     entry_year |-> ey, birth_date |-> bd]

DraftFile(rows) == DataFrame({"player_id"} \cup FillColSet, rows)

\* one row of games.csv, with the game_id the source gives it
GameRow(wk, away, home, day) ==
    [game_id |-> build_game_id(2020, wk, away, home), season |-> 2020,
     week |-> wk, gameday |-> <<day>>, home_team |-> home, away_team |-> away,
     home_qb_id |-> <<home>>, home_qb_name |-> <<home>>,
     away_qb_id |-> <<away>>, away_qb_name |-> <<away>>]

GamesFile(rows) == DataFrame(game_cols, rows)

----------------------------------------------------------------------------
(* pull_data, one action per stage *)

\* __init__ up to its call of pull_data
Init ==
    /\ model_df = None
    /\ games_df = None
    /\ games = NoAttribute
    /\ constructed = FALSE
    /\ pc = "retrieve_player_stats"
    /\ df = None
    /\ df_team = None
    /\ stats_src = Unread
    /\ meta_src = Unread
    /\ draft_src = Unread
    /\ games_src = Unread
    /\ before = <<None, NoAttribute>>
    /\ wrote = {}
    /\ fn = "none"
    /\ arg = <<>>
    /\ ret = <<>>

\* the caller calls pull_data again on the instance it holds
pull_data ==
    /\ pc = "done" \/ (pc = "raised" /\ constructed)
    /\ pc' = "retrieve_player_stats"
    /\ before' = <<model_df, games>>
    /\ wrote' = {}
    /\ df' = None
    /\ df_team' = None
    /\ stats_src' = Unread
    /\ meta_src' = Unread
    /\ draft_src' = Unread
    /\ games_src' = Unread
    /\ UNCHANGED <<model_df, games_df, games, constructed, fn, arg, ret>>

\* df = self.retrieve_player_stats(); while df is not None
RetrievePlayerStats(Sources) ==
    /\ pc = "retrieve_player_stats"
    /\ \E src \in Sources :
          /\ stats_src' = src
          /\ df' = retrieve_player_stats(src)
    /\ pc' = IF df'.none THEN "done" ELSE "retrieve_player_meta"
    /\ constructed' = (constructed \/ df'.none)
    /\ UNCHANGED <<model_df, games_df, games, df_team, meta_src, draft_src, games_src,
                   before, wrote, fn, arg, ret>>

\* df = self.retrieve_player_meta(df); the backfill file is read only when
\* the merge with players.csv went through
RetrievePlayerMeta(Metas, Drafts) ==
    /\ pc = "retrieve_player_meta"
    /\ \E m \in Metas, d \in Drafts :
          /\ meta_src' = m
          /\ draft_src' = IF meta_merge_raises(df, m) THEN Unread ELSE d
          /\ df' = retrieve_player_meta(df, m, d)
    /\ pc' = "add_game_data"
    /\ UNCHANGED <<model_df, games_df, games, constructed, df_team, stats_src, games_src,
                   before, wrote, fn, arg, ret>>

\* df = self.add_game_data(df), which also assigns self.games
AddGameData(Sources) ==
    /\ pc = "add_game_data"
    /\ \E src \in Sources :
          /\ games_src' = src
          /\ games' = games_after(games, df, src)
          /\ wrote' = IF game_fails_early(src) THEN wrote ELSE wrote \cup {"games"}
          /\ df' = add_game_data(df, src)
    /\ pc' = "aggregate_team_stats"
    /\ UNCHANGED <<model_df, games_df, constructed, df_team, stats_src, meta_src,
                   draft_src, before, fn, arg, ret>>

\* df_team = self.aggregate_team_stats(df)
AggregateTeamStats ==
    /\ pc = "aggregate_team_stats"
    /\ IF aggregate_raises(df)
       THEN /\ pc' = "raised"
            /\ UNCHANGED df_team
       ELSE /\ pc' = "team_value"
            /\ df_team' = aggregate_team_stats(df)
    /\ UNCHANGED <<model_df, games_df, games, constructed, df, stats_src, meta_src,
                   draft_src, games_src, before, wrote, fn, arg, ret>>

\* df_team['team_VALUE'] = ...; df_team = df_team.drop(columns=self.stat_cols)
TeamValue ==
    /\ pc = "team_value"
    /\ df_team' = with_value(df_team, "team_VALUE")
    /\ pc' = "iso_top_passer"
    /\ UNCHANGED <<model_df, games_df, games, constructed, df, stats_src, meta_src,
                   draft_src, games_src, before, wrote, fn, arg, ret>>

\* df = self.iso_top_passer(df)
IsoTopPasser ==
    /\ pc = "iso_top_passer"
    /\ df' = iso_top_passer(df)
    /\ pc' = "format_top_passer"
    /\ UNCHANGED <<model_df, games_df, games, constructed, df_team, stats_src, meta_src,
                   draft_src, games_src, before, wrote, fn, arg, ret>>

\* df = self.format_top_passer(df)
FormatTopPasser ==
    /\ pc = "format_top_passer"
    /\ IF format_raises(df)
       THEN /\ pc' = "raised"
            /\ df' = format_arg_after(df)
       ELSE /\ pc' = "player_value"
            /\ df' = format_top_passer(df)
    /\ UNCHANGED <<model_df, games_df, games, constructed, df_team, stats_src, meta_src,
                   draft_src, games_src, before, wrote, fn, arg, ret>>

\* df['player_VALUE'] = ...; df = df.drop(columns=self.stat_cols)
PlayerValue ==
    /\ pc = "player_value"
    /\ df' = with_value(df, "player_VALUE")
    /\ pc' = "store"
    /\ UNCHANGED <<model_df, games_df, games, constructed, df_team, stats_src, meta_src,
                   draft_src, games_src, before, wrote, fn, arg, ret>>

\* the merge of team_VALUE, self.model_df = df.copy(), df = None
Store ==
    /\ pc = "store"
    /\ model_df' = merge_team_value(df, df_team)
    /\ wrote' = wrote \cup {"model_df"}
    /\ df' = None
    /\ pc' = "done"
    /\ constructed' = TRUE
    /\ UNCHANGED <<games_df, games, df_team, stats_src, meta_src, draft_src, games_src,
                   before, fn, arg, ret>>

----------------------------------------------------------------------------
(* Spec: an instance whose pull_data is run again and again, each source   *)
(* unreachable, short of a column, or holding one of a few small tables    *)

MaxRunRows == 2

RunStatRows == {StatRow("P1", "QB", "LA", 2, StatLine(a)) : a \in {10, 20}}

RunStats ==
    LET tables == {StatsFile(t) : t \in SeqsUpTo(RunStatRows, MaxRunRows)}
    IN  {Unreachable} \cup tables
        \cup {DropColumn(StatsFile(<<r>>), c) :
                    r \in RunStatRows, c \in {"sacks", "player_id", "player_name"}}

RunMetas == {Unreachable, MetaFile(<<MetaRow("P1", <<2016>>, NaN, <<2016>>, NaN)>>)}

RunDrafts == {Unreachable, DraftFile(<<DraftRow("P1", <<2015>>, <<7>>, NaN, NaN)>>)}

RunGameRows == {GameRow(2, "LA", "KC", 20200913), GameRow(2, "STL", "KC", 20200914)}

RunGames ==
    LET tables == {GamesFile(t) : t \in SeqsUpTo(RunGameRows, MaxRunRows)}
    IN  {Unreachable} \cup tables
        \cup {DropColumn(GamesFile(<<r>>), "home_qb_id") : r \in RunGameRows}

Next ==
    \/ pull_data
    \/ RetrievePlayerStats(RunStats)
    \/ RetrievePlayerMeta(RunMetas, RunDrafts)
    \/ AddGameData(RunGames)
    \/ AggregateTeamStats
    \/ TeamValue
    \/ IsoTopPasser
    \/ FormatTopPasser
    \/ PlayerValue
    \/ Store

Spec == Init /\ [][Next]_vars

----------------------------------------------------------------------------
(* What this run's sources make of the working table *)

\* the quarterback stat rows this run ingested
Ingested == retrieve_player_stats(stats_src)

\* the working table after add_game_data, from this run's sources
Merged ==
    add_game_data(retrieve_player_meta(Ingested, meta_src, draft_src), games_src)

\* the filtered top-passer set of this run, with its start numbers
TopPassers == format_top_passer(iso_top_passer(Merged))

\* the run has ended, by return or by an exception leaving pull_data
RunEnded == pc \in {"done", "raised"}

\* the run went through to self.model_df = df.copy()
RunSucceeded == pc = "done" /\ "model_df" \in wrote

Unique(rows, keys) ==
    \A i, j \in DOMAIN rows : i # j => ~SameKey(rows[i], rows[j], keys)

RECURSIVE SumIndices(_, _, _)
SumIndices(rows, S, col) ==
    IF S = {} THEN 0
    ELSE LET i == CHOOSE x \in S : TRUE
         IN  rows[i][col] + SumIndices(rows, S \ {i}, col)

----------------------------------------------------------------------------
(* Claims about pull_data as a whole *)

\* C1: when a run of pull_data on an instance the caller holds has ended, the
\* stored outputs (model_df and the game table) are either both as they were
\* before the run or both assigned by this run.
C1_AllOrNothing ==
    (constructed /\ RunEnded) =>
        \/ <<model_df, games>> = before
        \/ wrote = {"games", "model_df"}

\* C2: once a stage has returned None the run ends right there: no later
\* stage is entered with df = None and no exception leaves pull_data. (df is
\* None only before the first stage and after a return.)
C2_ShortCircuit == df.none => pc \in {"retrieve_player_stats", "done"}

\* C3: after the metadata merge (with backfill) and after the game merge the
\* working table has exactly one row per ingested quarterback stat row.
C3_RowCountPreserved ==
    (pc \in {"add_game_data", "aggregate_team_stats"} /\ ~df.none) =>
        Len(df.rows) = Len(Ingested.rows)

\* C4: after a successful run the model table and the team table each hold
\* exactly one row per (game_id, team) pair of the merged player rows.
C4_OneRowPerGameTeam ==
    RunSucceeded =>
        /\ Unique(model_df.rows, {"game_id", "team"})
        /\ Unique(df_team.rows, {"game_id", "team"})
        /\ \A i \in DOMAIN Merged.rows :
              Merged.rows[i].game_id # NaN =>
                 /\ \E k \in DOMAIN model_df.rows :
                       SameKey(model_df.rows[k], Merged.rows[i], {"game_id", "team"})
                 /\ \E k \in DOMAIN df_team.rows :
                       SameKey(df_team.rows[k], Merged.rows[i], {"game_id", "team"})

\* C8: right after aggregate_team_stats, every (game_id, team) group of the
\* player rows has one team row, and each of its nine counting stats is the
\* sum of that stat over all player rows of the group.
C8_TeamRowSumsGroup ==
    pc = "team_value" =>
        \A i \in DOMAIN df.rows :
            df.rows[i].game_id # NaN =>
                LET group == {j \in DOMAIN df.rows :
                                SameKey(df.rows[j], df.rows[i], {"game_id", "team"})}
                    team == {k \in DOMAIN df_team.rows :
                                SameKey(df_team.rows[k], df.rows[i], {"game_id", "team"})}
                IN  /\ Cardinality(team) = 1
                    /\ \A k \in team, c \in StatColSet :
                          df_team.rows[k][c] = SumIndices(df.rows, group, c)

\* C10: in the model table of a successful run, a player with k rows in the
\* top-passer set has the start numbers 1..k, each on exactly one row, and a
\* row with a greater game_id never has the smaller start number.
C10_StartNumbers ==
    RunSucceeded =>
        \A i \in DOMAIN model_df.rows :
            LET mine == {j \in DOMAIN model_df.rows :
                           model_df.rows[j].player_id = model_df.rows[i].player_id}
                k == Cardinality({j \in DOMAIN TopPassers.rows :
                        TopPassers.rows[j].player_id = model_df.rows[i].player_id})
            IN  /\ \A n \in 1..k :
                      Cardinality({j \in mine : model_df.rows[j].start_number = n}) = 1
                /\ \A j \in mine :
                      /\ model_df.rows[j].start_number \in 1..k
                      /\ StrLess(model_df.rows[i].game_id, model_df.rows[j].game_id)
                            => model_df.rows[i].start_number
                                   <= model_df.rows[j].start_number

\* What does hold of these stages (not claims; checked alongside them)

\* the metadata merge with backfill keeps one row per ingested stat row
MetaMergeKeepsRows ==
    (pc = "add_game_data" /\ ~df.none) => Len(df.rows) = Len(Ingested.rows)

\* a run that returns normally has assigned both stored outputs or neither
ReturnIsAllOrNothing ==
    pc = "done" => wrote \in {{}, {"games", "model_df"}}

----------------------------------------------------------------------------
(* SpecFn: the pipeline's functions applied one at a time to bounded inputs *)

MaxTopRows == 2

MaxDraftRows == 2

MaxGameRows == 2

\* a players.csv and a backfill file for the frames below
FnMeta == MetaFile(<<MetaRow("P1", <<2016>>, NaN, <<2016>>, NaN)>>)

FnDraft == DraftFile(<<DraftRow("P1", <<2015>>, <<7>>, NaN, NaN)>>)

\* the working table add_game_data returns for a stats file and a schedule
FrameOf(stats, sched) ==
    add_game_data(retrieve_player_meta(retrieve_player_stats(stats), FnMeta, FnDraft),
                  sched)

TopStatRows ==
    {StatRow(p, "QB", t, w, StatLine(a)) :
        p \in {"P1", "P2"}, t \in {"LA", "KC"}, w \in {2, 10}, a \in {10, 20}}

TopSchedules ==
    {GamesFile(<<GameRow(2, "LA", "KC", 20200913)>>),
     GamesFile(<<GameRow(10, "KC", "STL", 20201115), GameRow(2, "LA", "KC", 20200913)>>),
     GamesFile(<<GameRow(2, "LA", "KC", 20200913), GameRow(2, "STL", "KC", 20200914)>>)}

\* arguments of iso_top_passer
TopInputs ==
    {FrameOf(StatsFile(t), g) :
        t \in SeqsUpTo(TopStatRows, MaxTopRows), g \in TopSchedules}

BioOptions ==
    [rookie_year : {NaN, <<2016>>}, draft_number : {NaN, <<3>>},
     entry_year : {NaN, <<2016>>}, birth_date : {NaN, <<19940305>>}]

FillOptions ==
    [rookie_year : {NaN, <<2015>>}, draft_number : {NaN, <<9>>},
     entry_year : {NaN, <<2015>>}, birth_date : {NaN, <<19930101>>}]

FillDraftRows ==
    {DraftRow("P1", o.rookie_year, o.draft_number, o.entry_year, o.birth_date) :
        o \in FillOptions}
    \cup {DraftRow("P2", <<2015>>, <<9>>, <<2015>>, <<19930101>>)}

FillStats ==
    retrieve_player_stats(StatsFile(<<StatRow("P1", "QB", "LA", 2, StatLine(10)),
                                      StatRow("P2", "QB", "LV", 2, StatLine(20))>>))

\* arguments of add_missing_draft_data: the stat rows merged with a
\* players.csv row of P1, and the rows of a backfill file
FillInputs ==
    {[rows |-> LeftMerge(FillStats.rows,
                         meta_rows(<<MetaRow("P1", o.rookie_year, o.draft_number,
                                             o.entry_year, o.birth_date)>>),
                         {"player_id"}, meta_cols \ {"gsis_id"}),
      missing_draft |-> t] :
        o \in BioOptions, t \in SeqsUpTo(FillDraftRows, MaxDraftRows)}

RawCodes == {"LA", "LV", "STL", "SD", "KC"}

FnGameRows ==
    {GameRow(q[1], q[2], q[3], 20200913) :
        q \in {x \in {2, 10} \X RawCodes \X RawCodes : x[2] # x[3]}}

\* arguments of add_game_data: a working table and a games.csv
GameInputs ==
    {[d |-> retrieve_player_meta(FillStats, FnMeta, FnDraft), src |-> GamesFile(t)] :
        t \in SeqsUpTo(FnGameRows, MaxGameRows)}

ValueLines ==
    [completions : {0, 20}, attempts : {0, 30}, passing_yards : {0, 250},
     passing_tds : {0, 2}, interceptions : {0, 1}, sacks : {0, 3},
     carries : {0, 3}, rushing_yards : {0, 10}, rushing_tds : {0, 1}]

TeamLines ==
    {l \in ValueLines : l.completions = 20 /\ l.attempts = 30 /\ l.carries = 3
                        /\ l.passing_yards = 250 /\ l.rushing_yards = 10}

ValueSchedule == GamesFile(<<GameRow(2, "LA", "KC", 20200913)>>)

\* arguments of calculate_raw_value: the rows pull_data hands it, a top
\* passer's row (player grain) or an aggregated row (team grain)
ValueInputs ==
    {[grain |-> "player",
      row |-> format_top_passer(iso_top_passer(
                 FrameOf(StatsFile(<<StatRow("P1", "QB", "LA", 2, l)>>),
                         ValueSchedule))).rows[1]] : l \in ValueLines}
    \cup
    {[grain |-> "team",
      row |-> aggregate_team_stats(
                 FrameOf(StatsFile(<<StatRow("P1", "QB", "LA", 2, l[1]),
                                     StatRow("P2", "QB", "LA", 2, l[2])>>),
                         ValueSchedule)).rows[1]] : l \in TeamLines \X TeamLines}

InitFn ==
    /\ model_df = None
    /\ games_df = None
    /\ games = NoAttribute
    /\ constructed = FALSE
    /\ pc = "none"
    /\ df = None
    /\ df_team = None
    /\ stats_src = Unread
    /\ meta_src = Unread
    /\ draft_src = Unread
    /\ games_src = Unread
    /\ before = <<None, NoAttribute>>
    /\ wrote = {}
    /\ ret = <<>>
    /\ \/ fn = "iso_top_passer" /\ arg \in TopInputs
       \/ fn = "add_missing_draft_data" /\ arg \in FillInputs
       \/ fn = "add_game_data" /\ arg \in GameInputs
       \/ fn = "calculate_raw_value" /\ arg \in ValueInputs
       \/ fn = "aggregate_team_stats" /\ arg \in TopInputs
       \/ fn = "format_top_passer" /\ arg \in {iso_top_passer(f) : f \in TopInputs}

Returned == ret # <<>>

CallIsoTopPasser ==
    /\ fn = "iso_top_passer" /\ ~Returned
    /\ ret' = <<iso_top_passer(arg)>>
    /\ UNCHANGED <<pipe_vars, fn, arg>>

CallAddMissingDraftData ==
    /\ fn = "add_missing_draft_data" /\ ~Returned
    /\ ret' = <<add_missing_draft_data(arg.rows, arg.missing_draft)>>
    /\ UNCHANGED <<pipe_vars, fn, arg>>

\* add_game_data on a fresh instance: what it returns and what it stores
CallAddGameData ==
    /\ fn = "add_game_data" /\ ~Returned
    /\ ret' = <<[df |-> add_game_data(arg.d, arg.src),
                 games |-> games_after(NoAttribute, arg.d, arg.src)]>>
    /\ UNCHANGED <<pipe_vars, fn, arg>>

CallCalculateRawValue ==
    /\ fn = "calculate_raw_value" /\ ~Returned
    /\ ret' = <<calculate_raw_value(arg.row)>>
    /\ UNCHANGED <<pipe_vars, fn, arg>>

CallAggregateTeamStats ==
    /\ fn = "aggregate_team_stats" /\ ~Returned
    /\ ret' = <<aggregate_team_stats(arg)>>
    /\ UNCHANGED <<pipe_vars, fn, arg>>

CallFormatTopPasser ==
    /\ fn = "format_top_passer" /\ ~Returned
    /\ ret' = <<format_top_passer(arg)>>
    /\ arg' = format_arg_after(arg)
    /\ UNCHANGED <<pipe_vars, fn>>

NextFn ==
    \/ CallIsoTopPasser
    \/ CallAddMissingDraftData
    \/ CallAddGameData
    \/ CallCalculateRawValue
    \/ CallAggregateTeamStats
    \/ CallFormatTopPasser

SpecFn == InitFn /\ [][NextFn]_vars

----------------------------------------------------------------------------
(* Claims about the functions *)

Min(S) == CHOOSE x \in S : \A y \in S : x <= y

Max(S) == CHOOSE x \in S : \A y \in S : x >= y

GameTeam == {"game_id", "team"}

\* C5: iso_top_passer keeps exactly one row of every (game_id, team) group of
\* its input; that row has the greatest attempts of the group, and among the
\* rows that tie on it, it is the one that comes first in the input.
C5_TopPasserOfGroup ==
    (fn = "iso_top_passer" /\ Returned) =>
        LET in == arg.rows
            out == ret[1].rows
        IN  \A i \in DOMAIN in :
               in[i].game_id # NaN =>
                  LET group == {j \in DOMAIN in : SameKey(in[j], in[i], GameTeam)}
                      most == Max({in[j].attempts : j \in group})
                      first == Min({j \in group : in[j].attempts = most})
                      kept == {k \in DOMAIN out : SameKey(out[k], in[i], GameTeam)}
                  IN  /\ Cardinality(kept) = 1
                      /\ \A k \in kept : out[k].attempts = most /\ out[k] = in[first]

\* iso_top_passer has returned from a frame in which two different players tie
\* on the greatest attempts of one group, and the row kept is the earlier one
C5_Witness ==
    /\ fn = "iso_top_passer" /\ Returned
    /\ \E i, j \in DOMAIN arg.rows :
          /\ i < j
          /\ arg.rows[i].game_id # NaN
          /\ SameKey(arg.rows[i], arg.rows[j], GameTeam)
          /\ arg.rows[i].attempts = arg.rows[j].attempts
          /\ arg.rows[i].player_id # arg.rows[j].player_id
          /\ \E k \in DOMAIN ret[1].rows : ret[1].rows[k] = arg.rows[i]

\* C6: for each of rookie_year, draft_number, entry_year and birth_date and
\* for every row, the value after backfill is the primary value when that is
\* not NaN, and otherwise the value of the field in the first backfill row of
\* the same player_id (whatever later rows of that player_id hold); a row
\* with no backfill row keeps its primary value. No row is added or dropped.
C6_BackfillFirstRowWins ==
    (fn = "add_missing_draft_data" /\ Returned) =>
        LET in == arg.rows
            fill == arg.missing_draft
            out == ret[1]
        IN  /\ Len(out) = Len(in)
            /\ \A i \in DOMAIN in :
                  \A c \in {"rookie_year", "draft_number", "entry_year", "birth_date"} :
                     LET rows == {j \in DOMAIN fill : fill[j].player_id = in[i].player_id}
                     IN  out[i][c] = IF in[i][c] # NaN \/ rows = {} THEN in[i][c]
                                     ELSE fill[Min(rows)][c]

\* add_missing_draft_data has returned for a player with two backfill rows:
\* draft_number was NaN and took the first row's value, rookie_year was set
\* and was kept although the first row holds another, and entry_year was NaN
\* and stays NaN because the first row has none, although the second has one
C6_Witness ==
    /\ fn = "add_missing_draft_data" /\ Returned
    /\ \E i \in DOMAIN arg.rows : \E j, k \in DOMAIN arg.missing_draft :
          /\ j = 1 /\ k = 2
          /\ arg.missing_draft[j].player_id = arg.rows[i].player_id
          /\ arg.missing_draft[k].player_id = arg.rows[i].player_id
          /\ arg.rows[i].draft_number = NaN
          /\ arg.missing_draft[j].draft_number = <<9>>
          /\ ret[1][i].draft_number = <<9>>
          /\ arg.rows[i].rookie_year = <<2016>>
          /\ arg.missing_draft[j].rookie_year = <<2015>>
          /\ ret[1][i].rookie_year = <<2016>>
          /\ arg.rows[i].entry_year = NaN
          /\ arg.missing_draft[j].entry_year = NaN
          /\ arg.missing_draft[k].entry_year = <<2015>>
          /\ ret[1][i].entry_year = NaN

\* the codes games_file_repl replaces
ReplacedCodes == {"LA", "LV", "STL", "SD"}

\* week as two digits
TwoDigits(n) == <<48 + (n \div 10), 48 + (n % 10)>>

\* C7: in the stored game table home_team and away_team are the codes read,
\* replaced through the schedule-side mapping (LA->LAR, LV->OAK, STL->LAR,
\* SD->LAC, others unchanged), and game_id is season_week_away_home with the
\* week on two digits and the replaced codes, so that no code the mapping
\* replaces is in it; the perspective rows and the merged rows carry that id.
C7_GameIdFromNormalizedCodes ==
    (fn = "add_game_data" /\ Returned) =>
        LET raw == arg.src.rows
            stored == ret[1].games.rows
            SideOf(t) == CASE t = "LA" -> "LAR" [] t = "LV" -> "OAK"
                           [] t = "STL" -> "LAR" [] t = "SD" -> "LAC" [] OTHER -> t
            IdOf(g) == astype_str(g.season) \o <<95>> \o TwoDigits(g.week) \o <<95>>
                         \o TeamChars[SideOf(g.away_team)] \o <<95>>
                         \o TeamChars[SideOf(g.home_team)]
            ids == {IdOf(raw[i]) : i \in DOMAIN raw}
        IN  /\ Len(stored) = Len(raw)
            /\ \A i \in DOMAIN raw :
                  /\ stored[i].home_team = SideOf(raw[i].home_team)
                  /\ stored[i].away_team = SideOf(raw[i].away_team)
                  /\ stored[i].home_team \notin ReplacedCodes
                  /\ stored[i].away_team \notin ReplacedCodes
                  /\ stored[i].game_id = IdOf(raw[i])
                  /\ \A t \in ReplacedCodes :
                        /\ stored[i].game_id # build_game_id(raw[i].season,
                              raw[i].week, t, stored[i].home_team)
                        /\ stored[i].game_id # build_game_id(raw[i].season,
                              raw[i].week, stored[i].away_team, t)
            /\ \A k \in DOMAIN game_flat(stored) :
                  game_flat(stored)[k].game_id
                      = IdOf(raw[((k - 1) % Len(raw)) + 1])
            /\ \A k \in DOMAIN ret[1].df.rows :
                  ret[1].df.rows[k].game_id \in ids \cup {NaN}

\* add_game_data has returned for a schedule whose week-2 game is STL at LV:
\* the stored row is LAR at OAK with game_id "2020_02_LAR_OAK"
C7_Witness ==
    /\ fn = "add_game_data" /\ Returned
    /\ \E i \in DOMAIN arg.src.rows :
          /\ arg.src.rows[i].home_team = "LV"
          /\ arg.src.rows[i].away_team = "STL"
          /\ arg.src.rows[i].week = 2
          /\ ret[1].games.rows[i].home_team = "OAK"
          /\ ret[1].games.rows[i].game_id =
                <<50, 48, 50, 48, 95, 48, 50, 95, 76, 65, 82, 95, 79, 65, 75>>

\* C9: calculate_raw_value gives, at player grain and at team grain,
\* 10 * VALUE = -22*attempts + 37*completions + 2*passing_yards
\* + 113*passing_tds - 141*interceptions - 80*sacks - 11*carries
\* + 6*rushing_yards + 159*rushing_tds; for 20 completions, 30 attempts, 250
\* passing yards, 2 passing tds, 1 interception, 3 sacks, 3 carries, 10
\* rushing yards and no rushing td that is 452, a VALUE of 45.2.
C9_ValueFormula ==
    (fn = "calculate_raw_value" /\ Returned) =>
        LET r == arg.row
            passing == 37 * r.completions - 22 * r.attempts + 2 * r.passing_yards
                       + 113 * r.passing_tds
            losses == 141 * r.interceptions + 80 * r.sacks
            rushing == 6 * r.rushing_yards + 159 * r.rushing_tds - 11 * r.carries
        IN  /\ ret[1] = passing - losses + rushing
            /\ (/\ r.completions = 20 /\ r.attempts = 30 /\ r.passing_yards = 250
                /\ r.passing_tds = 2 /\ r.interceptions = 1 /\ r.sacks = 3
                /\ r.carries = 3 /\ r.rushing_yards = 10 /\ r.rushing_tds = 0)
               => ret[1] = 452

\* calculate_raw_value has returned 452 for the top passer's row with the
\* stat line of the example
C9_Witness ==
    /\ fn = "calculate_raw_value" /\ Returned
    /\ arg.grain = "player"
    /\ Project(arg.row, StatColSet) =
          [completions |-> 20, attempts |-> 30, passing_yards |-> 250,
           passing_tds |-> 2, interceptions |-> 1, sacks |-> 3, carries |-> 3,
           rushing_yards |-> 10, rushing_tds |-> 0]
    /\ ret[1] = 452

\* calculate_raw_value has returned for an aggregated row of two players
C9_TeamGrainReached ==
    /\ fn = "calculate_raw_value" /\ Returned
    /\ arg.grain = "team"
    /\ arg.row.attempts = 60

----------------------------------------------------------------------------
(* What holds of aggregate_team_stats and format_top_passer taken alone    *)
(* (not claims; they bound what C8 and C10 get wrong)                      *)

\* every (game_id, season, week, gameday, team) group of the player rows has
\* one team row, holding the sums of the nine stats over the group
AggregateSumsKeyGroup ==
    (fn = "aggregate_team_stats" /\ Returned) =>
        \A i \in DOMAIN arg.rows :
            arg.rows[i].game_id # NaN =>
                LET group == {j \in DOMAIN arg.rows :
                                SameKey(arg.rows[j], arg.rows[i], GroupColSet)}
                    team == {k \in DOMAIN ret[1].rows :
                                SameKey(ret[1].rows[k], arg.rows[i], GroupColSet)}
                IN  /\ Cardinality(team) = 1
                    /\ \A k \in team, c \in StatColSet :
                          ret[1].rows[k][c] = SumIndices(arg.rows, group, c)

\* in the top-passer set the start numbers of a player with k rows are 1..k,
\* each once, ascending with game_id
TopPasserStartNumbers ==
    (fn = "format_top_passer" /\ Returned) =>
        LET out == ret[1].rows
        IN  /\ Len(out) = Len(arg.rows)
            /\ \A i \in DOMAIN out :
                  LET mine == {j \in DOMAIN out : out[j].player_id = out[i].player_id}
                  IN  /\ \A n \in 1..Cardinality(mine) :
                            Cardinality({j \in mine : out[j].start_number = n}) = 1
                      /\ \A j \in mine :
                            StrLess(out[i].game_id, out[j].game_id)
                                => out[i].start_number < out[j].start_number

\* a player is the top passer of week 10 and of week 2, read in that order,
\* and the week-2 row has start number 1
TopPasserTwoStarts ==
    /\ fn = "format_top_passer" /\ Returned
    /\ \E i, j \in DOMAIN ret[1].rows :
          /\ ret[1].rows[i].player_id = ret[1].rows[j].player_id
          /\ ret[1].rows[i].week = 2 /\ ret[1].rows[i].start_number = 1
          /\ ret[1].rows[j].week = 10 /\ ret[1].rows[j].start_number = 2

====
